---------------------------- MODULE Spec2Model ----------------------------
(***************************************************************************)
(* A model of gcp-service-discovery: the AppEngine Flex provider           *)
(* (aeflex.Service), the discovery Manager (discovery.Manager) and the     *)
(* file it writes for every registered provider.                           *)
(***************************************************************************)
EXTENDS Integers, Sequences, FiniteSets, TLC

VARIABLES
    \* ---- aeflex.Service and the App Engine Admin API behind it ----
    inv,        \* the inventory the Admin API serves: services, versions, instances
    targets,    \* Service.targets, the provider's field (a Go slice)
    last,       \* the latest Discover call: what it returned, and on which inventory
    prev,       \* the Discover call before it
    passes,     \* Discover calls made so far
    changes,    \* inventory changes made so far
    \* ---- discovery.Manager ----
    services,   \* Manager.services: the registered providers, by kind
    output,     \* Manager.output: the destination of each registered provider
    pc,         \* where Run is: idle, for, discover, write, select, done, crashed
    idx,        \* i of "for i := range m.services"
    ctxDone,    \* the context given to Run is cancelled
    disCtx,     \* the context of the current Discover call: none, live, expired, cancelled, dead
    tickNil,    \* time.Tick returned a nil channel (interval <= 0)
    tick,       \* ticks waiting in the ticker's channel (its buffer holds one)
    ticks,      \* ticks delivered so far
    files,      \* the content of every destination file
    configs,    \* what the Discover call of the current pass returned
    staged,     \* chunks of the new content written so far by the write in progress
    old,        \* content of the destination when the write in progress began
    round,      \* outcome of each provider's pass in the current round
    roundStart, \* the content of every destination when the current round began
    lastDisc,   \* per destination: result of the latest finished pass whose Discover succeeded
    lastOK,     \* per destination: result of the latest pass counted as success
    \* ---- gke.Service and the cluster inventory behind it ----
    gkeInv,     \* the zones, their clusters and the services of every cluster
    gkeLast,    \* the latest Discover call of the gke provider
    gkeChanges, \* changes of the cluster inventory made so far
    \* ---- web.Service and the HTTP source behind it ----
    webSrc,     \* what the source URL answers to a GET at this moment
    webLast,    \* the latest Discover call of the web provider
    \* ---- Service.getLabels called on its own ----
    lblLast     \* the latest getLabels call: its arguments and its record

aeVars == <<inv, targets, last, prev, passes, changes>>
mVars == <<services, output, pc, idx, ctxDone, disCtx, tickNil, tick, ticks,
           files, configs, staged, old, round, roundStart, lastDisc, lastOK>>
gkeVars == <<gkeInv, gkeLast, gkeChanges>>
webVars == <<webSrc, webLast>>
lblVars == <<lblLast>>
vars == <<inv, targets, last, prev, passes, changes,
          services, output, pc, idx, ctxDone, disCtx, tickNil, tick, ticks,
          files, configs, staged, old, round, roundStart, lastDisc, lastOK,
          gkeInv, gkeLast, gkeChanges, webSrc, webLast, lblLast>>

-----------------------------------------------------------------------------
(* Bounds of the model. *)

\* services, versions per service and instances per version of the inventory
NumServices == 2
NumVersions == 2
NumInstances == 1
\* items per page of a paginated listing
PageSize == 1
\* Discover calls on one provider instance
MaxPasses == 2
\* changes of the inventory during a run
MaxChanges == 2
\* providers registered with the Manager
MaxProviders == 2
\* ticks the ticker delivers
MaxTicks == 2
\* zones, clusters per zone and services per cluster of the cluster inventory
NumZones == 2
NumClusters == 1
NumKubeServices == 2
\* changes of the cluster inventory during a run
MaxGkeChanges == 2
MaxMirrored == 2

-----------------------------------------------------------------------------
(* Go values. *)

\* A Go slice: nil and empty-but-allocated are different values
\* (encoding/json writes the first as null and the second as []).
NilSlice == [isNil |-> TRUE, elems |-> <<>>]
EmptySlice == [isNil |-> FALSE, elems |-> <<>>]
GoAppend(s, x) == [isNil |-> FALSE, elems |-> Append(s.elems, x)]

Min(a, b) == IF a < b THEN a ELSE b

\* strings.HasSuffix
HasSuffix(s, suffix) ==
    /\ Len(s) >= Len(suffix)
    /\ SubSeq(s, Len(s) - Len(suffix) + 1, Len(s)) = suffix

Digits == {"0", "1", "2", "3", "4", "5", "6", "7", "8", "9"}
CharAt(s, k) == SubSeq(s, k, k)

\* regexp "([0-9]+)(/.*)" replaced by "$1": the leftmost run of digits that a
\* "/" follows is kept and everything from that "/" on is dropped; a string
\* with no such run is returned as it is.
ReplaceAllPort(s) ==
    LET IsMatch(a, b) == /\ a <= b - 1
                         /\ \A k \in a..(b - 1) : CharAt(s, k) \in Digits
                         /\ CharAt(s, b) = "/"
        slashes == {b \in 1..Len(s) : \E a \in 1..Len(s) : IsMatch(a, b)}
    IN  IF slashes = {} THEN s
        ELSE LET b == CHOOSE x \in slashes : \A y \in slashes : x <= y
             IN  SubSeq(s, 1, b - 1)

-----------------------------------------------------------------------------
(* discovery.StaticConfig and the aeflex labels. *)

aefLabel == "__aef_"
aefLabelProject == aefLabel \o "project"
aefLabelService == aefLabel \o "service"
aefLabelVersion == aefLabel \o "version"
aefLabelInstance == aefLabel \o "instance"
aefLabelPublicProto == aefLabel \o "public_protocol"
aefMaxTotalInstances == aefLabel \o "max_total_instances"
aefVMDebugEnabled == aefLabel \o "vm_debug_enabled"

\* Service.project
Project == "mlab-sandbox"

\* the StaticConfig zero value
NoRecord == [Targets |-> NilSlice, Labels |-> {}]

\* the manual-scaling count, whatever the automatic-scaling policy
manualFirst(version) ==
    IF ~version.ManualScaling.isNil THEN version.ManualScaling.Instances
    ELSE IF ~version.AutomaticScaling.isNil
         THEN version.AutomaticScaling.MaxTotalInstances
         ELSE 0
\* getLabels' "var instances int64": the automatic-scaling maximum, else the
\* manual-scaling count, else the zero value
maxInstances(version) ==
    IF ~version.AutomaticScaling.isNil
    THEN version.AutomaticScaling.MaxTotalInstances
    ELSE IF ~version.ManualScaling.isNil
         THEN version.ManualScaling.Instances
         ELSE 0

\* the last entry of the forwarded ports
lastPort(version) == version.Network.ForwardedPorts[Len(version.Network.ForwardedPorts)]
\* version.Network.ForwardedPorts[0]
firstPort(version) == version.Network.ForwardedPorts[1]

\* a protocol label that takes an entry without a suffix for tcp
protoTcp(entry) == IF HasSuffix(entry, "/udp") THEN "udp" ELSE "tcp"
\* the value getLabels gives aefLabelPublicProto
publicProto(entry) ==
    IF HasSuffix(entry, "/udp") THEN "udp"
    ELSE IF HasSuffix(entry, "/tcp") THEN "tcp"
    ELSE "both"

\* A map[string]string is the set of its <<key, value>> pairs.
\* Service.getLabels: one record per instance.
getLabels(service, version, instance) ==
    [Targets |-> [isNil |-> FALSE,
                  elems |-> <<instance.VmIp \o ":" \o ReplaceAllPort(firstPort(version))>>],
     Labels |-> {<<aefLabelProject, Project>>,
                 <<aefLabelService, service.Id>>,
                 <<aefLabelVersion, version.Id>>,
                 <<aefLabelInstance, instance.Id>>,
                 <<aefMaxTotalInstances, ToString(maxInstances(version))>>,
                 <<aefVMDebugEnabled,
                   IF instance.VmDebugEnabled THEN "true" ELSE "false">>,
                 <<aefLabelPublicProto, publicProto(firstPort(version))>>}]

-----------------------------------------------------------------------------
(* The inventory the App Engine Admin API serves. *)

ServiceId(s) == "s" \o ToString(s)
VersionId(v) == "v" \o ToString(v)
InstanceId(s, v, k) == "i" \o ToString(s) \o ToString(v) \o ToString(k)
InstanceIp(s, v, k) == "10." \o ToString(s) \o "." \o ToString(v) \o "." \o ToString(k)

NoScaling == [isNil |-> TRUE, MaxTotalInstances |-> 0, Instances |-> 0]
NoNetwork == [isNil |-> TRUE, ForwardedPorts |-> <<>>]

\* appengine.Instance
BaseInstance(s, v, k) ==
    [Id |-> InstanceId(s, v, k), VmIp |-> InstanceIp(s, v, k),
     VmStatus |-> "RUNNING", VmDebugEnabled |-> FALSE]

\* appengine.Version, with the instances the API lists under it
BaseVersion(s, v) ==
    [Id |-> VersionId(v), ServingStatus |-> "SERVING",
     Network |-> [isNil |-> FALSE, ForwardedPorts |-> <<"9090/tcp">>],
     AutomaticScaling |-> NoScaling,
     ManualScaling |-> [isNil |-> FALSE, MaxTotalInstances |-> 0, Instances |-> 1],
     instances |-> [k \in 1..NumInstances |-> BaseInstance(s, v, k)]]

\* appengine.Service: Split.Allocations is the set of the allocated version
\* ids; with the versions the API lists under it
BaseService(s) ==
    [Id |-> ServiceId(s),
     Allocations |-> {VersionId(v) : v \in 1..NumVersions},
     versions |-> [v \in 1..NumVersions |-> BaseVersion(s, v)]]

BaseInventory == [s \in 1..NumServices |-> BaseService(s)]

\* The places where the inventory can change, one field each.
Sites ==
    ({"VmIp", "VmStatus"} \X (1..NumServices) \X (1..NumVersions) \X (1..NumInstances))
    \cup ({"ServingStatus", "Allocation", "Network", "ForwardedPorts"}
            \X (1..NumServices) \X (1..NumVersions) \X {0})

\* The inventory with one field changed to its other value.
Toggle(i, site) ==
    LET f == site[1]
        s == site[2]
        v == site[3]
        k == site[4]
        ver == i[s].versions[v]
    IN  CASE f = "VmIp" ->
               [i EXCEPT ![s].versions[v].instances[k].VmIp =
                            IF @ = "" THEN InstanceIp(s, v, k) ELSE ""]
          [] f = "VmStatus" ->
               [i EXCEPT ![s].versions[v].instances[k].VmStatus =
                            IF @ = "RUNNING" THEN "STOPPED" ELSE "RUNNING"]
          [] f = "ServingStatus" ->
               [i EXCEPT ![s].versions[v].ServingStatus =
                            IF @ = "SERVING" THEN "STOPPED" ELSE "SERVING"]
          [] f = "Allocation" ->
               [i EXCEPT ![s].Allocations =
                            IF ver.Id \in @ THEN @ \ {ver.Id} ELSE @ \cup {ver.Id}]
          [] f = "Network" ->
               [i EXCEPT ![s].versions[v].Network.isNil = ~@]
          [] f = "ForwardedPorts" ->
               [i EXCEPT ![s].versions[v].Network.ForwardedPorts =
                            IF @ = <<>> THEN <<"9090/tcp">> ELSE <<>>]

-----------------------------------------------------------------------------
(* aeflex.Service.Discover.  A traversal state st carries the provider's   *)
(* targets field, the number n of API page requests made so far, whether   *)
(* one of them failed, and the counters of the service being visited.  The *)
(* request numbered failAt fails (0: none does).                           *)

\* A listing as the API pages it: at least one page, PageSize items a page.
Pages(list) ==
    IF list = <<>> THEN << <<>> >>
    ELSE [p \in 1..((Len(list) + PageSize - 1) \div PageSize) |->
            SubSeq(list, (p - 1) * PageSize + 1, Min(p * PageSize, Len(list)))]

\* Service.handleInstances, from instance k of the page on; acc carries the
\* targets field and the count found so far
RECURSIVE handleInstances(_, _, _, _, _, _)
handleInstances(acc, Instances, k, service, version, shouldMonitor) ==
    IF k > Len(Instances) THEN acc
    ELSE IF \/ Instances[k].VmIp = ""
            \/ Instances[k].VmStatus # "RUNNING"
            \/ version.Network.isNil
            \/ Len(version.Network.ForwardedPorts) = 0
         THEN handleInstances(acc, Instances, k + 1, service, version, shouldMonitor)
         ELSE handleInstances(
                  [targets |-> IF shouldMonitor
                               THEN GoAppend(acc.targets,
                                             getLabels(service, version, Instances[k]))
                               ELSE acc.targets,
                   found |-> acc.found + 1],
                  Instances, k + 1, service, version, shouldMonitor)

\* the callback handleVersions gives InstancesPages, h being what
\* handleInstances returned for the page
countFound(st, h, shouldMonitor) ==
    [st EXCEPT !.targets = h.targets,
               !.active = IF shouldMonitor THEN @ + h.found ELSE @,
               !.inactive = IF shouldMonitor THEN @ ELSE @ + h.found]

\* AppAPI.InstancesPages, from page p on: every page is one request, and the
\* listing stops at the first request that fails
RECURSIVE InstancesPages(_, _, _, _, _, _, _)
InstancesPages(st, pages, p, service, version, shouldMonitor, failAt) ==
    IF st.err \/ p > Len(pages) THEN st
    ELSE IF st.n + 1 = failAt THEN [st EXCEPT !.n = @ + 1, !.err = TRUE]
    ELSE InstancesPages(
             countFound([st EXCEPT !.n = @ + 1],
                        handleInstances([targets |-> st.targets, found |-> 0],
                                        pages[p], 1, service, version, shouldMonitor),
                        shouldMonitor),
             pages, p + 1, service, version, shouldMonitor, failAt)

\* Service.handleVersions, from version k of the page on: it returns at the
\* first version whose instances cannot be listed
RECURSIVE handleVersions(_, _, _, _, _)
handleVersions(st, Versions, k, service, failAt) ==
    IF st.err \/ k > Len(Versions) THEN st
    ELSE IF Versions[k].ServingStatus # "SERVING"
         THEN handleVersions(st, Versions, k + 1, service, failAt)
         ELSE handleVersions(
                  InstancesPages(st, Pages(Versions[k].instances), 1, service,
                                 Versions[k],
                                 Versions[k].Id \in service.Allocations, failAt),
                  Versions, k + 1, service, failAt)

\* AppAPI.VersionsPages with the callback discoverVersions gives it, from page p on
RECURSIVE VersionsPages(_, _, _, _, _)
VersionsPages(st, pages, p, service, failAt) ==
    IF st.err \/ p > Len(pages) THEN st
    ELSE IF st.n + 1 = failAt THEN [st EXCEPT !.n = @ + 1, !.err = TRUE]
    ELSE VersionsPages(
             handleVersions([st EXCEPT !.n = @ + 1,
                                       !.versions = @ + Len(pages[p])],
                            pages[p], 1, service, failAt),
             pages, p + 1, service, failAt)

\* the end of discoverVersions: VersionCount and InstanceCount are set
\* whether or not the listing failed
setGauges(st, service) ==
    [st EXCEPT !.gauges = Append(@, [service |-> service.Id,
                                      versions |-> st.versions,
                                      active |-> st.active,
                                      inactive |-> st.inactive])]

\* Service.discoverVersions: the counters start at 0 for every service
discoverVersions(st, service, failAt) ==
    setGauges(VersionsPages([st EXCEPT !.versions = 0, !.active = 0, !.inactive = 0],
                            Pages(service.versions), 1, service, failAt),
              service)

\* the loop over the services of one page, in Discover's callback: it returns
\* at the first service whose traversal failed
RECURSIVE discoverServices(_, _, _, _)
discoverServices(st, Services, k, failAt) ==
    IF st.err \/ k > Len(Services) THEN st
    ELSE discoverServices(discoverVersions(st, Services[k], failAt),
                          Services, k + 1, failAt)

\* AppAPI.ServicesPages with the callback Discover gives it, from page p on
RECURSIVE ServicesPages(_, _, _, _)
ServicesPages(st, pages, p, failAt) ==
    IF st.err \/ p > Len(pages) THEN st
    ELSE IF st.n + 1 = failAt THEN [st EXCEPT !.n = @ + 1, !.err = TRUE]
    ELSE ServicesPages(discoverServices([st EXCEPT !.n = @ + 1], pages[p], 1, failAt),
                       pages, p + 1, failAt)

\* the end of Discover: nil and the error, or the targets field and no error
returned(st) ==
    [configs |-> IF st.err THEN NilSlice ELSE st.targets,
     err |-> st.err,
     targets |-> st.targets,
     gauges |-> st.gauges,
     requests |-> st.n]

\* Service.Discover on a provider whose targets field is tg: the returned
\* slice and error, and the targets field the call leaves behind.
Discover(tg, inventory, failAt) ==
    returned(ServicesPages([targets |-> tg, n |-> 0, err |-> FALSE, versions |-> 0,
                            active |-> 0, inactive |-> 0, gauges |-> <<>>],
                           Pages(inventory), 1, failAt))

\* The page requests a pass makes when none fails.
Requests(inventory) == Discover(NilSlice, inventory, 0).requests

-----------------------------------------------------------------------------
(* The provider on its own: Discover called directly, as the tests do, on  *)
(* an inventory that changes between the calls.                            *)

NoCall == [called |-> FALSE, configs |-> NilSlice, err |-> FALSE,
           inv |-> BaseInventory, before |-> NilSlice, gauges |-> <<>>,
           failAt |-> 0]

\* NewService: the targets field is left nil
AEInit ==
    /\ inv = BaseInventory
    /\ targets = NilSlice
    /\ last = NoCall
    /\ prev = NoCall
    /\ passes = 0
    /\ changes = 0

\* One call of Service.Discover, whose page request failAt fails.
AEDiscover ==
    /\ passes < MaxPasses
    /\ \E failAt \in 0..Requests(inv) :
         \E r \in {Discover(targets, inv, failAt)} :
             /\ targets' = r.targets
             /\ last' = [called |-> TRUE, configs |-> r.configs, err |-> r.err,
                         inv |-> inv, before |-> targets, gauges |-> r.gauges,
                         failAt |-> failAt]
    /\ prev' = last
    /\ passes' = passes + 1
    /\ UNCHANGED <<inv, changes>>
    /\ UNCHANGED <<mVars, gkeVars, webVars, lblVars>>

\* The deployment changes: an instance stops or loses its address, a version
\* stops serving, loses its traffic or its forwarded ports, or the reverse.
InventoryChange ==
    /\ changes < MaxChanges
    /\ \E site \in Sites : inv' = Toggle(inv, site)
    /\ changes' = changes + 1
    /\ UNCHANGED <<targets, last, prev, passes>>
    /\ UNCHANGED <<mVars, gkeVars, webVars, lblVars>>

AENext == AEDiscover \/ InventoryChange

-----------------------------------------------------------------------------
(* Service.getLabels on its own, called with the versions and instances a  *)
(* deployment may have.                                                    *)

\* entries of a version's forwarded ports: "<port>/<proto>" or a bare "<port>"
PortEntries ==
    {"9090/tcp", "9090/udp", "9090", "8080/tcp", "8080/udp", "8080", "9090/http"}

\* the forwarded ports of a version that has any: one entry or two
PortLists ==
    {<<p>> : p \in PortEntries} \cup {<<p, q>> : p \in PortEntries, q \in PortEntries}

\* the scaling policies of a version: either may be absent
AutomaticScalings ==
    {NoScaling,
     [isNil |-> FALSE, MaxTotalInstances |-> 20, Instances |-> 0],
     [isNil |-> FALSE, MaxTotalInstances |-> 0, Instances |-> 0]}
ManualScalings ==
    {NoScaling, [isNil |-> FALSE, MaxTotalInstances |-> 0, Instances |-> 3]}

\* the versions handleInstances passes to getLabels
LabelVersions ==
    {[BaseVersion(1, 1) EXCEPT !.Network.ForwardedPorts = ports,
                               !.AutomaticScaling = auto,
                               !.ManualScaling = manual] :
        ports \in PortLists, auto \in AutomaticScalings, manual \in ManualScalings}

\* and the instances
LabelInstances ==
    {[BaseInstance(1, 1, 1) EXCEPT !.VmDebugEnabled = d] : d \in BOOLEAN}

NoLabelsCall ==
    [called |-> FALSE, version |-> BaseVersion(1, 1), instance |-> BaseInstance(1, 1, 1),
     config |-> NoRecord]

LabelsInit == lblLast = NoLabelsCall

\* one call of getLabels
GetLabels ==
    /\ \E version \in LabelVersions, instance \in LabelInstances :
         lblLast' = [called |-> TRUE, version |-> version, instance |-> instance,
                     config |-> getLabels(BaseService(1), version, instance)]
    /\ UNCHANGED <<aeVars, mVars, gkeVars, webVars>>

LabelsNext == GetLabels

-----------------------------------------------------------------------------
(* The file the Manager writes for a provider. *)

\* A file is a sequence of tokens: null, [], [ and ] on their own, and one
\* token for every object of an array.
\* The JSON object of a StaticConfig, by its struct tags: "targets" is null
\* for a nil slice and an array of strings otherwise; "labels" is left out
\* (omitempty) when the map is nil or empty.
MarshalConfig(c) ==
    [targets |-> IF c.Targets.isNil THEN [kind |-> "null", items |-> <<>>]
                 ELSE [kind |-> "array", items |-> c.Targets.elems],
     labels |-> IF c.Labels = {} THEN [present |-> FALSE, members |-> {}]
                ELSE [present |-> TRUE, members |-> c.Labels]]
Tok(t) == [tok |-> t, rec |-> MarshalConfig(NoRecord)]
Obj(c) == [tok |-> "obj", rec |-> MarshalConfig(c)]

\* json.MarshalIndent of a []StaticConfig: a nil slice is written as null, an
\* empty one as [], any other as its objects between brackets.
MarshalIndent(c) ==
    IF c.isNil THEN <<Tok("null")>>
    ELSE IF c.elems = <<>> THEN <<Tok("[]")>>
    ELSE <<Tok("[")>> \o [n \in 1..Len(c.elems) |-> Obj(c.elems[n])] \o <<Tok("]")>>

\* ioutil.WriteFile, as the legacy Save does: the destination itself is
\* truncated and filled chunk by chunk.
ioutilWriteFile(before, data, k) == SubSeq(data, 1, k)

\* safefile.WriteFile while k chunks are written: they go to a temporary file
\* next to the destination, and the destination keeps its content.
safefileWriteFile(before, data, k) == before

\* a file that grows by what is written to it
appendTo(before, data) == before \o data

\* The destination once WriteFile has returned nil: the data it was given.
written(before, data) == data

\* what every destination holds before Run: the output of an earlier run
OldRecord ==
    [Targets |-> [isNil |-> FALSE, elems |-> <<"old:9090">>], Labels |-> {}]
OldDoc == <<Tok("["), Obj(OldRecord), Tok("]")>>

-----------------------------------------------------------------------------
(* The providers registered with the Manager. *)

Kinds == {"literal", "failure", "timeout", "aeflex", "gke"}
Dests == {"a.json", "b.json"}

\* fakeLiteral.Discover
LiteralConfigs ==
    [isNil |-> FALSE,
     elems |-> <<[Targets |-> [isNil |-> FALSE, elems |-> <<"output">>],
                  Labels |-> {<<"key", "value">>}]>>]

\* gke: what findTargetAndLabels builds for one annotated service with an
\* external address and a port
GkeConfigs ==
    [isNil |-> FALSE,
     elems |-> <<[Targets |-> [isNil |-> FALSE, elems |-> <<"104.196.164.214:9090">>],
                  Labels |-> {<<"service", "prometheus">>, <<"cluster", "c1">>,
                              <<"zone", "us-central1-a">>}]>>]

\* an inventory none of whose versions is serving
StoppedInventory ==
    [s \in 1..NumServices |->
        [BaseService(s) EXCEPT !.versions =
            [v \in 1..NumVersions |->
                [BaseVersion(s, v) EXCEPT !.ServingStatus = "STOPPED"]]]]

\* the inventories an AppEngine provider registered with the Manager meets
AEInventories == {BaseInventory, StoppedInventory}

\* The page requests at which a Discover call of the AppEngine provider may
\* fail (0: none does). Every request of a call made under a context that is
\* already done fails; one that is done during the call fails a later request.
AEFailPoints(ctx) ==
    IF ctx = "live" THEN {0, 1, Requests(inv)}
    ELSE IF ctx = "dead" THEN {1}
    ELSE {1, Requests(inv)}

-----------------------------------------------------------------------------
(* gke.Service: zones, the clusters of every zone, the services of every   *)
(* cluster.  A traversal state st carries the targets collected so far,    *)
(* the number n of inventory calls made, the call that failed ("" when     *)
(* none did) and whether the traversal panicked.                           *)

\* the annotations of a service: the scrape annotation is absent or has a value
NoAnnotation == [present |-> FALSE, value |-> ""]
Annotated(v) == [present |-> TRUE, value |-> v]
\* a reading of the annotation that looks at its presence only
anyAnnotation(service) == IF service.scrape.present THEN "true" ELSE ""
\* service.ObjectMeta.Annotations["gke-prometheus-federation/scrape"]: the
\* value, or "" when the map has no such key
Annotation(service) == IF service.scrape.present THEN service.scrape.value ELSE ""

ZoneName(z) == "zone" \o ToString(z)
ClusterName(z, c) == "cluster" \o ToString(z) \o ToString(c)
KubeServiceName(z, c, k) == "svc" \o ToString(z) \o ToString(c) \o ToString(k)
ExternalIP(z, c, k) == "104.196." \o ToString(z) \o "." \o ToString(k)
IngressIP(z, c, k) == "35.197." \o ToString(z) \o "." \o ToString(k)

\* a service annotated for scraping, with an external address and a port
BaseKubeService(z, c, k) ==
    [Name |-> KubeServiceName(z, c, k),
     scrape |-> Annotated("true"),
     ExternalIPs |-> <<ExternalIP(z, c, k)>>,
     Ports |-> <<9090>>,
     Ingress |-> <<>>]
BaseCluster(z, c) ==
    [Name |-> ClusterName(z, c),
     services |-> [k \in 1..NumKubeServices |-> BaseKubeService(z, c, k)]]
BaseZone(z) ==
    [Name |-> ZoneName(z),
     clusters |-> [c \in 1..NumClusters |-> BaseCluster(z, c)]]
BaseGkeInventory == [z \in 1..NumZones |-> BaseZone(z)]

\* what a service of the inventory may look like
KubeShapes(z, c, k) ==
    [Name : {KubeServiceName(z, c, k)},
     scrape : {NoAnnotation, Annotated("true"), Annotated("false")},
     ExternalIPs : {<<>>, <<ExternalIP(z, c, k)>>},
     Ports : {<<>>, <<9090>>, <<9090, 8080>>},
     Ingress : {<<>>, <<IngressIP(z, c, k)>>}]

\* findTargetAndLabels: the first external address with the first port, else
\* the first ingress address with the first port (an index out of range, and
\* so a panic, when the service has no port), else no target.
NoTarget == [panic |-> FALSE, isNil |-> TRUE, config |-> NoRecord]
Panicked == [panic |-> TRUE, isNil |-> TRUE, config |-> NoRecord]
\* a record whose cluster and zone labels are exchanged
targetSwapped(target, zoneName, clusterName, service) ==
    IF target = "" THEN NoTarget
    ELSE [panic |-> FALSE, isNil |-> FALSE,
          config |-> [Targets |-> [isNil |-> FALSE, elems |-> <<target>>],
                      Labels |-> {<<"service", service.Name>>,
                                  <<"cluster", zoneName>>,
                                  <<"zone", clusterName>>}]]
targetOf(target, zoneName, clusterName, service) ==
    IF target = "" THEN NoTarget
    ELSE [panic |-> FALSE, isNil |-> FALSE,
          config |-> [Targets |-> [isNil |-> FALSE, elems |-> <<target>>],
                      Labels |-> {<<"service", service.Name>>,
                                  <<"cluster", clusterName>>,
                                  <<"zone", zoneName>>}]]
\* an address selection that looks at the ingress first
ingressFirst(zoneName, clusterName, service) ==
    IF Len(service.Ingress) > 0 /\ Len(service.Ports) > 0
    THEN targetOf(service.Ingress[1] \o ":" \o ToString(service.Ports[1]),
                  zoneName, clusterName, service)
    ELSE IF Len(service.ExternalIPs) > 0 /\ Len(service.Ports) > 0
         THEN targetOf(service.ExternalIPs[1] \o ":" \o ToString(service.Ports[1]),
                       zoneName, clusterName, service)
         ELSE targetOf("", zoneName, clusterName, service)
findTargetAndLabels(zoneName, clusterName, service) ==
    IF Len(service.ExternalIPs) > 0 /\ Len(service.Ports) > 0
    THEN targetOf(service.ExternalIPs[1] \o ":" \o ToString(service.Ports[1]),
                  zoneName, clusterName, service)
    ELSE IF Len(service.Ingress) > 0
         THEN IF Len(service.Ports) = 0 THEN Panicked
              ELSE targetOf(service.Ingress[1] \o ":" \o ToString(service.Ports[1]),
                            zoneName, clusterName, service)
         ELSE targetOf("", zoneName, clusterName, service)

\* an inventory call fails: the traversal has its error
Fail(st, call) == [st EXCEPT !.n = @ + 1, !.err = call]
Stopped(st) == st.err # "" \/ st.panic

\* an append that does not look at the target
addEvenNil(st, t) ==
    IF t.panic THEN [st EXCEPT !.panic = TRUE]
    ELSE [st EXCEPT !.targets = GoAppend(@, t.config)]
\* checkCluster's "if target != nil { configs = append(configs, *target) }"
addTarget(st, t) ==
    IF t.panic THEN [st EXCEPT !.panic = TRUE]
    ELSE IF t.isNil THEN st
    ELSE [st EXCEPT !.targets = GoAppend(@, t.config)]

\* the loop of checkCluster over the services listed, from service k on
RECURSIVE checkServices(_, _, _, _, _)
checkServices(st, Items, k, zoneName, clusterName) ==
    IF Stopped(st) \/ k > Len(Items) THEN st
    ELSE IF Annotation(Items[k]) # "true"
         THEN checkServices(st, Items, k + 1, zoneName, clusterName)
         ELSE checkServices(
                  addTarget(st, findTargetAndLabels(zoneName, clusterName, Items[k])),
                  Items, k + 1, zoneName, clusterName)

\* checkCluster: one call lists the services of the cluster
checkCluster(st, zoneName, cluster, failAt) ==
    IF Stopped(st) THEN st
    ELSE IF st.n + 1 = failAt THEN Fail(st, "services")
    ELSE checkServices([st EXCEPT !.n = @ + 1], cluster.services, 1,
                       zoneName, cluster.Name)

\* GetKubeClient for a cluster: the derivation of its client may fail
GetKubeClient(st, failAt) ==
    IF st.n + 1 = failAt THEN Fail(st, "client") ELSE [st EXCEPT !.n = @ + 1]

\* the loop of findTargetsFromZone over the clusters of a zone, from cluster k on
RECURSIVE checkClusters(_, _, _, _, _)
checkClusters(st, Clusters, k, zoneName, failAt) ==
    IF Stopped(st) \/ k > Len(Clusters) THEN st
    ELSE checkClusters(
             checkCluster(GetKubeClient(st, failAt), zoneName, Clusters[k], failAt),
             Clusters, k + 1, zoneName, failAt)

\* findTargetsFromZone: one call lists the clusters of the zone
findTargetsFromZone(st, zone, failAt) ==
    IF st.n + 1 = failAt THEN Fail(st, "clusters")
    ELSE checkClusters([st EXCEPT !.n = @ + 1], zone.clusters, 1, zone.Name, failAt)

\* the loop of Discover over the zones, from zone k on
RECURSIVE discoverZones(_, _, _, _)
discoverZones(st, zones, k, failAt) ==
    IF Stopped(st) \/ k > Len(zones) THEN st
    ELSE discoverZones(findTargetsFromZone(st, zones[k], failAt), zones, k + 1, failAt)

\* getZoneList: the zones are listed page by page, every page one call
RECURSIVE getZoneList(_, _, _, _)
getZoneList(st, pages, p, failAt) ==
    IF Stopped(st) \/ p > Len(pages) THEN st
    ELSE IF st.n + 1 = failAt THEN Fail(st, "zones")
    ELSE getZoneList([st EXCEPT !.n = @ + 1], pages, p + 1, failAt)

\* an end of Discover that hands back what was found so far with the error
gkeFoundSoFar(st) ==
    [configs |-> st.targets, err |-> st.err, panic |-> st.panic, requests |-> st.n]
\* the end of Discover: nil and the error, or the targets and no error; a
\* panic returns nothing
gkeReturned(st) ==
    [configs |-> IF Stopped(st) THEN NilSlice ELSE st.targets,
     err |-> st.err,
     panic |-> st.panic,
     requests |-> st.n]

\* gke.Service.Discover, whose inventory call failAt fails (0: none does)
gkeDiscover(inventory, failAt) ==
    gkeReturned(discoverZones(
        getZoneList([targets |-> EmptySlice, n |-> 0, err |-> "", panic |-> FALSE],
                    Pages(inventory), 1, failAt),
        inventory, 1, failAt))

\* the inventory calls of a pass over the whole inventory
GkeRequests ==
    ((NumZones + PageSize - 1) \div PageSize) + NumZones * (1 + 2 * NumClusters)

NoGkeCall == [called |-> FALSE, configs |-> NilSlice, err |-> "", panic |-> FALSE,
              requests |-> 0, inv |-> BaseGkeInventory, failAt |-> 0]

GkeInit ==
    /\ gkeInv = BaseGkeInventory
    /\ gkeLast = NoGkeCall
    /\ gkeChanges = 0

\* One call of gke.Service.Discover.
GkeDiscover ==
    /\ \E failAt \in 0..GkeRequests :
         \E r \in {gkeDiscover(gkeInv, failAt)} :
             gkeLast' = [called |-> TRUE, configs |-> r.configs, err |-> r.err,
                         panic |-> r.panic, requests |-> r.requests,
                         inv |-> gkeInv, failAt |-> failAt]
    /\ UNCHANGED <<gkeInv, gkeChanges>>
    /\ UNCHANGED <<aeVars, mVars, webVars, lblVars>>

\* A service of a cluster changes: its annotation, addresses, ports or ingress.
GkeChange ==
    /\ gkeChanges < MaxGkeChanges
    /\ \E z \in 1..NumZones, c \in 1..NumClusters, k \in 1..NumKubeServices :
         \E shape \in KubeShapes(z, c, k) :
             gkeInv' = [gkeInv EXCEPT ![z].clusters[c].services[k] = shape]
    /\ gkeChanges' = gkeChanges + 1
    /\ UNCHANGED gkeLast
    /\ UNCHANGED <<aeVars, mVars, webVars, lblVars>>

\* an annotated service that has lost its addresses
NoAddressService(z, c, k) ==
    [BaseKubeService(z, c, k) EXCEPT !.ExternalIPs = <<>>, !.Ingress = <<>>]

\* The services of a zone lose their addresses: the load balancers of its
\* clusters are taken down.
GkeStrip ==
    /\ gkeChanges < MaxGkeChanges
    /\ \E z \in 1..NumZones :
         gkeInv' = [gkeInv EXCEPT ![z].clusters =
                       [c \in 1..NumClusters |->
                           [@[c] EXCEPT !.services =
                               [k \in 1..NumKubeServices |-> NoAddressService(z, c, k)]]]]
    /\ gkeChanges' = gkeChanges + 1
    /\ UNCHANGED gkeLast
    /\ UNCHANGED <<aeVars, mVars, webVars, lblVars>>

GkeNext == GkeDiscover \/ GkeChange \/ GkeStrip

\* The AppEngine provider and the gke provider of one program, each called
\* directly on its inventory.
ProvidersNext == AEDiscover \/ GkeDiscover

-----------------------------------------------------------------------------
(* web.Service: the provider that mirrors a target file served over HTTP. *)

\* Records an upstream file may hold next to those a provider builds.
OkayRecord ==
    [Targets |-> [isNil |-> FALSE, elems |-> <<"okay">>], Labels |-> {<<"a", "b">>}]
\* {"targets": [], "labels": {"a": "b"}}
EmptyTargetsRecord == [Targets |-> EmptySlice, Labels |-> {<<"a", "b">>}]

\* The bodies a source may serve, as token sequences: the documents
\* MarshalIndent writes, and texts that are not such documents. Beyond the
\* tokens of a written file a body may hold "num" (a number), "{}" (an object
\* where an array is expected, or a record without fields inside an array),
\* "null" inside an array, and "garbage" (text that is not JSON).
WebBodies ==
    { MarshalIndent(NilSlice),
      MarshalIndent(EmptySlice),
      MarshalIndent([isNil |-> FALSE, elems |-> <<OkayRecord>>]),
      MarshalIndent([isNil |-> FALSE, elems |-> <<OkayRecord, OldRecord>>]),
      MarshalIndent([isNil |-> FALSE, elems |-> <<OkayRecord, EmptyTargetsRecord>>]),
      <<Tok("["), Tok("null"), Tok("]")>>,
      <<Tok("["), Obj(OkayRecord), Tok("num"), Tok("]")>>,
      <<Tok("["), Obj(OkayRecord)>>,
      <<Tok("{}")>>,
      <<Tok("garbage")>>,
      <<>> }

\* what a GET of the source URL meets: NewRequest may reject the URL, the
\* round trip may fail, and a response has a status, a body and a body stream
\* that can or cannot be read to its end
GoodResponse ==
    [url |-> "ok", transport |-> "ok", status |-> 200, readAll |-> "ok",
     body |-> MarshalIndent([isNil |-> FALSE, elems |-> <<OkayRecord>>])]
WebResponses ==
    {[GoodResponse EXCEPT !.body = b] : b \in WebBodies}
    \cup {[GoodResponse EXCEPT !.url = "bad"]}
    \cup {[GoodResponse EXCEPT !.transport = t] : t \in {"refused", "canceled"}}
    \cup {[GoodResponse EXCEPT !.status = c] : c \in {404, 500}}
    \cup {[GoodResponse EXCEPT !.readAll = "fails"]}
    \cup {[GoodResponse EXCEPT !.status = 404, !.body = <<Tok("garbage")>>]}

\* encoding/json: the syntax check Unmarshal makes of the whole text before
\* it stores anything
validValue(t) == t.tok \in {"obj", "null", "num", "{}", "[]"}
checkValid(data) ==
    \/ Len(data) = 1 /\ validValue(data[1])
    \/ /\ Len(data) >= 3
       /\ data[1] = Tok("[")
       /\ data[Len(data)] = Tok("]")
       /\ \A n \in 2..(Len(data) - 1) : validValue(data[n])

\* the StaticConfig an element of the array decodes to: an object gives its
\* fields, null and {} leave the zero value, and so does a value of another
\* type, which is an error
\* an object decoded without its labels
decodeTargetsOnly(j) ==
    [Targets |-> IF j.targets.kind = "null" THEN NilSlice
                 ELSE [isNil |-> FALSE, elems |-> j.targets.items],
     Labels |-> {}]
\* a JSON object into a zero StaticConfig: "targets" null leaves the slice
\* nil and an array makes it non-nil; "labels" fills the map when present
UnmarshalConfig(j) ==
    [Targets |-> IF j.targets.kind = "null" THEN NilSlice
                 ELSE [isNil |-> FALSE, elems |-> j.targets.items],
     Labels |-> IF j.labels.present THEN j.labels.members ELSE {}]
decodeElement(t) == IF t.tok = "obj" THEN UnmarshalConfig(t.rec) ELSE NoRecord
typeError(t) == t.tok \in {"num", "[]"}

\* json.Unmarshal(data, &configs) with configs a nil []StaticConfig: null
\* leaves it nil, an array fills it element by element and reports the first
\* type error after decoding all of it, any other value is a type error
Unmarshal(data) ==
    IF ~checkValid(data) THEN [configs |-> NilSlice, err |-> TRUE]
    ELSE IF data = <<Tok("null")>> THEN [configs |-> NilSlice, err |-> FALSE]
    ELSE IF data = <<Tok("[]")>> THEN [configs |-> EmptySlice, err |-> FALSE]
    ELSE IF Len(data) = 1 THEN [configs |-> NilSlice, err |-> TRUE]
    ELSE [configs |->
             [isNil |-> FALSE,
              elems |-> [n \in 1..(Len(data) - 2) |-> decodeElement(data[n + 1])]],
          err |-> \E n \in 2..(Len(data) - 1) : typeError(data[n])]

\* "if err != nil { return nil, err }; return configs, nil"
parsedOrNil(parsed, err) == IF err THEN NilSlice ELSE parsed

\* web.Service.Discover
webDiscover(response) ==
    IF response.url # "ok" THEN [configs |-> NilSlice, err |-> "request"]
    ELSE IF response.transport # "ok" THEN [configs |-> NilSlice, err |-> "transport"]
    ELSE IF response.status # 200 THEN [configs |-> NilSlice, err |-> "status"]
    ELSE IF response.readAll # "ok" THEN [configs |-> NilSlice, err |-> "read"]
    ELSE [configs |-> parsedOrNil(Unmarshal(response.body).configs,
                                  Unmarshal(response.body).err),
          err |-> IF Unmarshal(response.body).err THEN "unmarshal" ELSE ""]

NoWebCall == [called |-> FALSE, configs |-> NilSlice, err |-> "", src |-> GoodResponse]

WebInit ==
    /\ webSrc = GoodResponse
    /\ webLast = NoWebCall

\* one Discover call of the web provider
WebDiscover ==
    /\ webLast' = [called |-> TRUE,
                   configs |-> webDiscover(webSrc).configs,
                   err |-> webDiscover(webSrc).err,
                   src |-> webSrc]
    /\ UNCHANGED webSrc
    /\ UNCHANGED <<aeVars, mVars, gkeVars, lblVars>>

\* the source starts to answer differently
WebChange ==
    /\ \E r \in WebResponses \ {webSrc} : webSrc' = r
    /\ UNCHANGED webLast
    /\ UNCHANGED <<aeVars, mVars, gkeVars, lblVars>>

WebNext == WebDiscover \/ WebChange

\* The records of the providers' results, with and without targets and labels.
MirrorRecords ==
    {OkayRecord, OldRecord, EmptyTargetsRecord, NoRecord,
     LiteralConfigs.elems[1], GkeConfigs.elems[1],
     [Targets |-> [isNil |-> FALSE, elems |-> <<"10.1.1.1:9090", "10.1.1.2:9090">>],
      Labels |-> {}]}

\* The sequences a provider may return and the Manager serialize: nil, empty,
\* and up to MaxMirrored records.
MirrorConfigs ==
    {NilSlice, EmptySlice}
    \cup UNION {{[isNil |-> FALSE, elems |-> e] : e \in [1..n -> MirrorRecords]} :
                   n \in 1..MaxMirrored}

\* The source serves a file the Manager wrote: the data writeConfigToFile
\* made of a provider's result.
ServeFile ==
    /\ \E c \in MirrorConfigs :
         webSrc' = [GoodResponse EXCEPT !.body = MarshalIndent(c)]
    /\ UNCHANGED webLast
    /\ UNCHANGED <<aeVars, mVars, gkeVars, lblVars>>

MirrorNext == ServeFile \/ WebDiscover

-----------------------------------------------------------------------------
(* discovery.Manager *)

NoPass == [disc |-> "none", write |-> "none", doc |-> <<>>]
NoDoc == [set |-> FALSE, doc |-> <<>>]
NewRound == [n \in 1..Len(services) |-> NoPass]
InitialFiles == [d \in Dests |-> OldDoc]

\* NewManager: nothing is registered
MInit ==
    /\ services = <<>>
    /\ output = <<>>
    /\ pc = "idle"
    /\ idx = 0
    /\ ctxDone = FALSE
    /\ disCtx = "none"
    /\ tickNil = FALSE
    /\ tick = 0
    /\ ticks = 0
    /\ files = InitialFiles
    /\ configs = NilSlice
    /\ staged = 0
    /\ old = <<>>
    /\ round = <<>>
    /\ roundStart = InitialFiles
    /\ lastDisc = [d \in Dests |-> NoDoc]
    /\ lastOK = [d \in Dests |-> NoDoc]

Init == AEInit /\ MInit /\ GkeInit /\ WebInit /\ LabelsInit

\* "continue", and the end of the loop body: on to the next provider
breakLoop(i) == MaxProviders + 1
sameAgain(i) == i
continueLoop(i) == i + 1

\* the cases of Run's select that are ready
selectTickOnly(t, done) == IF t = 1 THEN {"tick"} ELSE {}
selectAnyway(t, done) == {"tick", "done"}
selectReady(t, done) ==
    (IF t = 1 THEN {"tick"} ELSE {}) \cup (IF done THEN {"done"} ELSE {})

\* an append that leaves out what the list already holds
appendIfNew(list, x) ==
    IF \E n \in 1..Len(list) : list[n] = x THEN list ELSE Append(list, x)
\* Go's append of one element to a slice
append(list, x) == Append(list, x)

\* Manager.Register: appends to both lists, with no check of either argument.
\* main registers one AppEngine provider at most.
Register(kind, out) ==
    /\ pc = "idle"
    /\ Len(services) < MaxProviders
    /\ kind = "aeflex" => \A n \in 1..Len(services) : services[n] # "aeflex"
    /\ services' = append(services, kind)
    /\ output' = append(output, out)
    /\ IF kind = "aeflex" THEN inv' \in AEInventories ELSE inv' = inv
    /\ UNCHANGED <<targets, last, prev, passes, changes>>
    /\ UNCHANGED <<gkeVars, webVars, lblVars>>
    /\ UNCHANGED <<pc, idx, ctxDone, disCtx, tickNil, tick, ticks, files,
                   configs, staged, old, round, roundStart, lastDisc, lastOK>>

\* Run is called: time.Tick(interval) gives a nil channel when interval <= 0.
RunStart ==
    /\ pc = "idle"
    /\ pc' = "for"
    /\ idx' = 1
    /\ tickNil' \in BOOLEAN
    /\ round' = NewRound
    /\ roundStart' = files
    /\ UNCHANGED <<aeVars, gkeVars, webVars, lblVars>>
    /\ UNCHANGED <<services, output, ctxDone, disCtx, tick, ticks, files,
                   configs, staged, old, lastDisc, lastOK>>

\* a context that is done from the start, whatever its parent
doneContext(parentDone) == "dead"
\* context.WithTimeout(ctx, m.Timeout): a new context with a timer of its own,
\* done from the start when its parent is
WithTimeout(parentDone) == IF parentDone THEN "dead" ELSE "live"

\* The loop body begins for provider idx: context.WithTimeout(ctx, m.Timeout)
\* and the call of Discover.
StartDiscover ==
    /\ pc = "for"
    /\ idx <= Len(services)
    /\ pc' = "discover"
    /\ disCtx' = WithTimeout(ctxDone)
    /\ UNCHANGED <<aeVars, gkeVars, webVars, lblVars>>
    /\ UNCHANGED <<services, output, idx, ctxDone, tickNil, tick, ticks, files,
                   configs, staged, old, round, roundStart, lastDisc, lastOK>>

\* The range over m.services is exhausted: Run reaches its select.
EndRound ==
    /\ pc = "for"
    /\ idx > Len(services)
    /\ pc' = "select"
    /\ UNCHANGED <<aeVars, gkeVars, webVars, lblVars>>
    /\ UNCHANGED <<services, output, idx, ctxDone, disCtx, tickNil, tick, ticks,
                   files, configs, staged, old, round, roundStart, lastDisc, lastOK>>

\* m.Timeout passes while the Discover call is running.
TimeoutExpires ==
    /\ pc = "discover"
    /\ disCtx = "live"
    /\ disCtx' = "expired"
    /\ UNCHANGED <<aeVars, gkeVars, webVars, lblVars>>
    /\ UNCHANGED <<services, output, pc, idx, ctxDone, tickNil, tick, ticks, files,
                   configs, staged, old, round, roundStart, lastDisc, lastOK>>

\* The context given to Run is cancelled, and with it the context derived
\* from it for a Discover call that is running.
Cancel ==
    /\ ~ctxDone
    /\ pc \notin {"done", "crashed"}
    /\ ctxDone' = TRUE
    /\ disCtx' = IF pc = "discover" /\ disCtx = "live" THEN "cancelled" ELSE disCtx
    /\ UNCHANGED <<aeVars, gkeVars, webVars, lblVars>>
    /\ UNCHANGED <<services, output, pc, idx, tickNil, tick, ticks, files,
                   configs, staged, old, round, roundStart, lastDisc, lastOK>>

\* The ticker sends a tick; its channel holds one, a tick that finds it full
\* is dropped.
TickFires ==
    /\ pc \in {"for", "discover", "write", "select"}
    /\ ~tickNil
    /\ tick = 0
    /\ ticks < MaxTicks
    /\ tick' = 1
    /\ ticks' = ticks + 1
    /\ UNCHANGED <<aeVars, gkeVars, webVars, lblVars>>
    /\ UNCHANGED <<services, output, pc, idx, ctxDone, disCtx, tickNil, files,
                   configs, staged, old, round, roundStart, lastDisc, lastOK>>

\* What Run does with the error of Discover: an error skips the write.
writeAnyway(err) == "write"
onDiscover(err) == IF err THEN "for" ELSE "write"

\* Discover returned c and err. cancel() is called; with an error, it is
\* logged and counted and Run continues with the next provider; without,
\* writeConfigToFile begins.
Returned(c, err) ==
    /\ round' = [round EXCEPT ![idx].disc = IF err THEN "error" ELSE "ok"]
    /\ IF onDiscover(err) = "write"
       THEN /\ configs' = c
            /\ pc' = "write"
            /\ staged' = 0
            /\ old' = files[output[idx]]
            /\ disCtx' = IF disCtx = "live" THEN "cancelled" ELSE disCtx
            /\ UNCHANGED idx
       ELSE /\ pc' = "for"
            /\ idx' = continueLoop(idx)
            /\ disCtx' = "none"
            /\ UNCHANGED <<configs, staged, old>>
    /\ UNCHANGED <<files, lastDisc, lastOK>>

\* fakeLiteral.Discover
LiteralReturns ==
    /\ pc = "discover"
    /\ services[idx] = "literal"
    /\ Returned(LiteralConfigs, FALSE)
    /\ UNCHANGED <<aeVars, gkeVars, webVars, lblVars>>
    /\ UNCHANGED <<services, output, ctxDone, tickNil, tick, ticks, roundStart>>

\* fakeFailure.Discover
FailureReturns ==
    /\ pc = "discover"
    /\ services[idx] = "failure"
    /\ Returned(NilSlice, TRUE)
    /\ UNCHANGED <<aeVars, gkeVars, webVars, lblVars>>
    /\ UNCHANGED <<services, output, ctxDone, tickNil, tick, ticks, roundStart>>

\* fakeTimeout.Discover: waits for its context to be done, then returns an
\* empty slice and no error.
TimeoutReturns ==
    /\ pc = "discover"
    /\ services[idx] = "timeout"
    /\ disCtx # "live"
    /\ Returned(EmptySlice, FALSE)
    /\ UNCHANGED <<aeVars, gkeVars, webVars, lblVars>>
    /\ UNCHANGED <<services, output, ctxDone, tickNil, tick, ticks, roundStart>>

\* aeflex.Service.Discover, on the provider's own targets field
AeflexReturns ==
    /\ pc = "discover"
    /\ services[idx] = "aeflex"
    /\ \E failAt \in AEFailPoints(disCtx) :
         \E r \in {Discover(targets, inv, failAt)} :
             /\ targets' = r.targets
             /\ Returned(r.configs, r.err)
    /\ UNCHANGED <<inv, last, prev, passes, changes>>
    /\ UNCHANGED <<gkeVars, webVars, lblVars>>
    /\ UNCHANGED <<services, output, ctxDone, tickNil, tick, ticks, roundStart>>

\* gke.Service.Discover: the zone and cluster listings take the context, the
\* listing of a cluster's services (checkCluster) does not, so that the call
\* may return a result after its context is done, or stay out. A project
\* without annotated services gives an empty slice.
GkeReturns ==
    /\ pc = "discover"
    /\ services[idx] = "gke"
    /\ \/ Returned(NilSlice, TRUE)
       \/ /\ disCtx # "dead"
          /\ \E c \in {EmptySlice, GkeConfigs} : Returned(c, FALSE)
    /\ UNCHANGED <<aeVars, gkeVars, webVars, lblVars>>
    /\ UNCHANGED <<services, output, ctxDone, tickNil, tick, ticks, roundStart>>

\* One more chunk of the new content is written.
WriteChunk ==
    /\ pc = "write"
    /\ \E data \in {MarshalIndent(configs)} :
         /\ staged < Len(data)
         /\ files' = [files EXCEPT ![output[idx]] = safefileWriteFile(old, data, staged + 1)]
    /\ staged' = staged + 1
    /\ UNCHANGED <<aeVars, gkeVars, webVars, lblVars>>
    /\ UNCHANGED <<services, output, pc, idx, ctxDone, disCtx, tickNil, tick, ticks,
                   configs, old, round, roundStart, lastDisc, lastOK>>

\* The pass is over: on to the next provider.
EndPass(d, data, outcome) ==
    /\ pc' = "for"
    /\ idx' = continueLoop(idx)
    /\ round' = [round EXCEPT ![idx].write = outcome, ![idx].doc = data]
    /\ lastDisc' = IF round[idx].disc = "ok"
                   THEN [lastDisc EXCEPT ![d] = [set |-> TRUE, doc |-> data]]
                   ELSE lastDisc
    /\ configs' = NilSlice
    /\ staged' = 0
    /\ old' = <<>>
    /\ disCtx' = "none"

\* All of the new content is written: WriteFile puts it in place and returns
\* nil, writeConfigToFile returns nil, the pass is counted as a success.
WriteCommit ==
    /\ pc = "write"
    /\ \E data \in {MarshalIndent(configs)} :
         /\ staged = Len(data)
         /\ files' = [files EXCEPT ![output[idx]] = written(old, data)]
         /\ lastOK' = [lastOK EXCEPT ![output[idx]] = [set |-> TRUE, doc |-> data]]
         /\ EndPass(output[idx], data, "ok")
    /\ UNCHANGED <<aeVars, gkeVars, webVars, lblVars>>
    /\ UNCHANGED <<services, output, ctxDone, tickNil, tick, ticks, roundStart>>

\* WriteFile returns an error (the directory is missing, the disk is full):
\* the error is logged and counted, continue.
WriteFails ==
    /\ pc = "write"
    /\ EndPass(output[idx], MarshalIndent(configs), "error")
    /\ UNCHANGED <<aeVars, gkeVars, webVars, lblVars>>
    /\ UNCHANGED <<services, output, ctxDone, tickNil, tick, ticks, files,
                   roundStart, lastOK>>

\* The process stops in the middle of a write.
Crash ==
    /\ pc = "write"
    /\ pc' = "crashed"
    /\ UNCHANGED <<aeVars, gkeVars, webVars, lblVars>>
    /\ UNCHANGED <<services, output, idx, ctxDone, disCtx, tickNil, tick, ticks, files,
                   configs, staged, old, round, roundStart, lastDisc, lastOK>>

\* select takes the tick: continue, the next round begins.
SelectTick ==
    /\ pc = "select"
    /\ "tick" \in selectReady(tick, ctxDone)
    /\ tick' = 0
    /\ pc' = "for"
    /\ idx' = 1
    /\ round' = NewRound
    /\ roundStart' = files
    /\ UNCHANGED <<aeVars, gkeVars, webVars, lblVars>>
    /\ UNCHANGED <<services, output, ctxDone, disCtx, tickNil, ticks, files,
                   configs, staged, old, lastDisc, lastOK>>

\* select takes ctx.Done(): Run returns.
SelectDone ==
    /\ pc = "select"
    /\ "done" \in selectReady(tick, ctxDone)
    /\ pc' = "done"
    /\ UNCHANGED <<aeVars, gkeVars, webVars, lblVars>>
    /\ UNCHANGED <<services, output, idx, ctxDone, disCtx, tickNil, tick, ticks, files,
                   configs, staged, old, round, roundStart, lastDisc, lastOK>>

\* the steps of Run, and of the test's providers, which return at once or
\* when their context is done
RunStep ==
    \/ StartDiscover
    \/ EndRound
    \/ LiteralReturns
    \/ FailureReturns
    \/ TimeoutReturns
    \/ WriteChunk
    \/ WriteCommit
    \/ WriteFails
    \/ SelectTick
    \/ SelectDone

\* what happens around Run
Environment ==
    \/ GkeReturns
    \/ TimeoutExpires
    \/ Cancel
    \/ TickFires

Next ==
    \/ \E kind \in Kinds, out \in Dests : Register(kind, out)
    \/ RunStart
    \/ RunStep
    \/ AeflexReturns
    \/ Environment
    \/ Crash

\* the providers of the runs checked for progress
LiveKinds == {"literal", "failure", "timeout", "gke"}

LiveNext ==
    \/ \E kind \in LiveKinds, out \in Dests : Register(kind, out)
    \/ RunStart
    \/ RunStep
    \/ Environment

\* The Manager, its providers and the files.
Spec == Init /\ [][Next]_vars

\* The AppEngine provider on its own.
SpecAE == Init /\ [][AENext]_vars

\* The gke provider on its own.
SpecGKE == Init /\ [][GkeNext]_vars
SpecProviders == Init /\ [][ProvidersNext]_vars
SpecWeb == Init /\ [][WebNext]_vars

\* The web provider reading the files the Manager writes.
SpecMirror == Init /\ [][MirrorNext]_vars

\* getLabels on its own.
SpecLabels == Init /\ [][LabelsNext]_vars

\* The Manager without crashes. The goroutine of Run is scheduled, the calls
\* made with a context return once it is done, the timeout of a call passes,
\* and a select whose ctx.Done() case is ready again and again takes it in the
\* end (select chooses among its ready cases at random).
LiveSpec ==
    /\ Init
    /\ [][LiveNext]_vars
    /\ WF_vars(RunStep)
    /\ WF_vars(TimeoutExpires)
    /\ SF_vars(SelectDone)

-----------------------------------------------------------------------------
(* Claims about the AppEngine provider, checked under SpecAE. *)

\* A fresh provider's successful pass over an inventory.
FreshDiscover(inventory) == Discover(NilSlice, inventory, 0).configs

\* C1: two successive Discover calls on the same provider instance, both
\* successful and against the same inventory, return the same TargetRecord
\* sequence: same records, same order, same length.
C1_DiscoverTwiceSame ==
    (/\ prev.called /\ last.called
     /\ ~prev.err /\ ~last.err
     /\ prev.inv = last.inv)
    => last.configs = prev.configs

\* C2: when a pass failed after it had already collected targets, the next
\* successful pass on the same provider instance returns exactly what a
\* freshly constructed provider returns for the same inventory.
C2_FailedPassDiscarded ==
    (/\ prev.called /\ prev.err
     /\ Len(last.before.elems) > Len(prev.before.elems)
     /\ last.called /\ ~last.err)
    => last.configs = FreshDiscover(last.inv)

\* The six conditions under which instance k of version v of service s is a target.
Qualifies(inventory, s, v, k) ==
    /\ inventory[s].versions[v].ServingStatus = "SERVING"
    /\ inventory[s].versions[v].Id \in inventory[s].Allocations
    /\ inventory[s].versions[v].instances[k].VmIp # ""
    /\ inventory[s].versions[v].instances[k].VmStatus = "RUNNING"
    /\ ~inventory[s].versions[v].Network.isNil
    /\ Len(inventory[s].versions[v].Network.ForwardedPorts) >= 1

\* Some record of the returned sequence is the one of that instance.
Emitted(result, s, v, k) ==
    \E n \in 1..Len(result.elems) :
        {<<aefLabelService, ServiceId(s)>>, <<aefLabelVersion, VersionId(v)>>,
         <<aefLabelInstance, InstanceId(s, v, k)>>} \subseteq result.elems[n].Labels

\* C10: a successful pass emits an instance of the inventory it traversed if
\* and only if the instance meets all six conditions.
C10_EmittedIffQualifies ==
    (last.called /\ ~last.err) =>
        \A s \in 1..NumServices, v \in 1..NumVersions, k \in 1..NumInstances :
            Emitted(last.configs, s, v, k) <=> Qualifies(last.inv, s, v, k)

\* Instance k of version v of service s has an address, is running, and its
\* version declares a forwarded port.
Monitorable(inventory, s, v, k) ==
    /\ inventory[s].versions[v].instances[k].VmIp # ""
    /\ inventory[s].versions[v].instances[k].VmStatus = "RUNNING"
    /\ ~inventory[s].versions[v].Network.isNil
    /\ Len(inventory[s].versions[v].Network.ForwardedPorts) >= 1

\* the monitorable instances of the serving versions of service s that the
\* traffic split leaves out
Unallocated(inventory, s) ==
    {vk \in (1..NumVersions) \X (1..NumInstances) :
        /\ inventory[s].versions[vk[1]].ServingStatus = "SERVING"
        /\ inventory[s].versions[vk[1]].Id \notin inventory[s].Allocations
        /\ Monitorable(inventory, s, vk[1], vk[2])}

\* C11: after a successful pass, the inactive count of every service is the
\* number of monitorable instances of its serving versions that are not in the
\* traffic split, and none of these instances is among the targets returned.
C11_UnallocatedCountedNotEmitted ==
    (last.called /\ ~last.err) =>
        \A s \in 1..NumServices :
            /\ last.gauges[s].inactive = Cardinality(Unallocated(last.inv, s))
            /\ \A vk \in Unallocated(last.inv, s) :
                   ~Emitted(last.configs, s, vk[1], vk[2])

-----------------------------------------------------------------------------
(* Claims about the Manager, checked under Spec and LiveSpec. *)

\* A round of two providers with different destinations is over; the Discover
\* of provider i returned an error and that of provider j did not.
OneFailsOneSucceeds(i, j) ==
    /\ Len(services) = 2
    /\ output[1] # output[2]
    /\ pc = "select"
    /\ round[i].disc = "error"
    /\ round[j].disc = "ok"

\* C3, as stated: after such a round the destination of the provider whose
\* Discover succeeded holds its new output and the destination of the one
\* whose Discover failed is as it was when the round began, whichever of the
\* two was registered first.
C3_AsStated ==
    \A i \in 1..2, j \in 1..2 :
        OneFailsOneSucceeds(i, j) =>
            /\ files[output[j]] = round[j].doc
            /\ files[output[i]] = roundStart[output[i]]

\* C3, amended: the same, provided the write of the succeeding provider
\* succeeded too; when it failed, both destinations are as they were.
C3_FailureIsolated ==
    \A i \in 1..2, j \in 1..2 :
        OneFailsOneSucceeds(i, j) =>
            /\ files[output[i]] = roundStart[output[i]]
            /\ files[output[j]] = IF round[j].write = "ok" THEN round[j].doc
                                  ELSE roundStart[output[j]]

\* C3 witness: the failing provider was registered first, and the second
\* provider's new output is in its destination.
C3_Witness ==
    /\ OneFailsOneSucceeds(1, 2)
    /\ round[2].write = "ok"
    /\ files[output[2]] = round[2].doc
    /\ files[output[2]] # roundStart[output[2]]

\* C4: a pass whose Discover call was running when its timeout expired writes
\* nothing to the provider's destination.
C4_NoWriteAfterTimeout ==
    [][(pc = "write" /\ disCtx = "expired") => files' = files]_vars

\* C5: once the timeout of a Discover call has passed, Run goes on, whether
\* or not the call returns.
C5_TimeoutBoundsCall ==
    (pc = "discover" /\ disCtx = "expired") ~> (pc # "discover")

\* a complete output of json.MarshalIndent
IsJSONArray(doc) ==
    \/ doc = <<Tok("[]")>>
    \/ /\ Len(doc) >= 3
       /\ doc[1] = Tok("[")
       /\ doc[Len(doc)] = Tok("]")
       /\ \A n \in 2..(Len(doc) - 1) : doc[n].tok = "obj"
IsDocument(doc) == doc = <<Tok("null")>> \/ IsJSONArray(doc)

\* C6: every destination holds a complete document at every moment; the one
\* being written holds its complete previous content or the complete new one,
\* and its previous content after a crash in the middle of the write.
C6_AtomicWrite ==
    \A d \in Dests :
        /\ IsDocument(files[d])
        /\ (pc = "write" /\ output[idx] = d)
              => files[d] \in {old, MarshalIndent(configs)}
        /\ (pc = "crashed" /\ output[idx] = d) => files[d] = old

\* C6 witness: a crash after a part of the new content was written, not all.
C6_Witness ==
    /\ pc = "crashed"
    /\ staged >= 1
    /\ staged < Len(MarshalIndent(configs))
    /\ MarshalIndent(configs) # old
    /\ files[output[idx]] = old

\* C7: if every Discover call returns, then once the context given to Run is
\* cancelled, Run returns.
C7_RunReturnsOnCancel ==
    [](pc = "discover" => <>(pc # "discover"))
        => ((ctxDone /\ pc # "idle") ~> (pc = "done"))

\* C7 witness: Run has returned, after a tick, with two providers registered.
C7_Witness ==
    /\ pc = "done"
    /\ ctxDone
    /\ Len(services) = 2
    /\ ticks >= 1

\* C8, as stated: every destination holds what it held before Run, or the
\* serialized result of the latest finished pass whose Discover succeeded.
C8_AsStated ==
    \A d \in Dests :
        \/ files[d] = InitialFiles[d]
        \/ lastDisc[d].set /\ files[d] = lastDisc[d].doc

\* C8, amended: every destination holds, at every moment, what it held before
\* Run or the complete serialized result of the latest pass on it whose
\* Discover and write both succeeded.
C8_LatestWrittenPass ==
    \A d \in Dests :
        \/ files[d] = InitialFiles[d]
        \/ lastOK[d].set /\ files[d] = lastOK[d].doc

\* C8 witness: a destination written by one pass and kept by a later pass
\* whose Discover succeeded with another result and whose write failed.
C8_Witness ==
    \E d \in Dests :
        /\ lastOK[d].set
        /\ files[d] = lastOK[d].doc
        /\ files[d] # InitialFiles[d]
        /\ lastDisc[d].doc # lastOK[d].doc

\* C9: after a successful pass the destination holds a JSON array, the empty
\* array when the pass found no target.
C9_FileIsArray ==
    \A d \in Dests : lastOK[d].set => IsJSONArray(files[d])

-----------------------------------------------------------------------------
(* Claims about the gke provider, checked under SpecGKE. *)

\* the service k of cluster c of zone z in the inventory of the latest call
KubeService(z, c, k) == gkeLast.inv[z].clusters[c].services[k]
\* the latest call returned a result
GkeSucceeded == gkeLast.called /\ gkeLast.err = "" /\ ~gkeLast.panic
\* the records of the result that carry the name of that service
GkeRecords(z, c, k) ==
    {n \in 1..Len(gkeLast.configs.elems) :
        <<"service", KubeServiceName(z, c, k)>> \in gkeLast.configs.elems[n].Labels}
\* the targets of record n of the result
GkeTargets(n) == gkeLast.configs.elems[n].Targets.elems

\* C13: a service whose scrape annotation is absent or has another value than
\* "true" has no record in the result, whatever its addresses and ports.
C13_OnlyAnnotatedTrue ==
    GkeSucceeded =>
        \A z \in 1..NumZones, c \in 1..NumClusters, k \in 1..NumKubeServices :
            (\/ ~KubeService(z, c, k).scrape.present
             \/ KubeService(z, c, k).scrape.value # "true")
                => GkeRecords(z, c, k) = {}

\* C13 witness: a service annotated "false" that has an external address and
\* a port stays out of a result that holds other services.
C13_Witness ==
    /\ GkeSucceeded
    /\ Len(gkeLast.configs.elems) >= 1
    /\ \E z \in 1..NumZones, c \in 1..NumClusters, k \in 1..NumKubeServices :
         /\ KubeService(z, c, k).scrape = Annotated("false")
         /\ Len(KubeService(z, c, k).ExternalIPs) > 0
         /\ Len(KubeService(z, c, k).Ports) > 0
         /\ GkeRecords(z, c, k) = {}

\* C14: an annotated service with an external address, a port and an ingress
\* entry has one record, whose target is the first external address with the
\* first port; its ingress address is in no target.
C14_ExternalBeforeIngress ==
    GkeSucceeded =>
        \A z \in 1..NumZones, c \in 1..NumClusters, k \in 1..NumKubeServices :
            (/\ KubeService(z, c, k).scrape = Annotated("true")
             /\ Len(KubeService(z, c, k).ExternalIPs) > 0
             /\ Len(KubeService(z, c, k).Ports) > 0
             /\ Len(KubeService(z, c, k).Ingress) > 0)
                => /\ Cardinality(GkeRecords(z, c, k)) = 1
                   /\ \A n \in GkeRecords(z, c, k) :
                          GkeTargets(n) = <<ExternalIP(z, c, k) \o ":9090">>

\* C14 witness: such a service, with two ports, in a result.
C14_Witness ==
    /\ GkeSucceeded
    /\ \E z \in 1..NumZones, c \in 1..NumClusters, k \in 1..NumKubeServices :
         /\ KubeService(z, c, k).scrape = Annotated("true")
         /\ KubeService(z, c, k).ExternalIPs = <<ExternalIP(z, c, k)>>
         /\ KubeService(z, c, k).Ports = <<9090, 8080>>
         /\ KubeService(z, c, k).Ingress = <<IngressIP(z, c, k)>>
         /\ GkeRecords(z, c, k) # {}

-----------------------------------------------------------------------------
(* Claims about the web provider, checked under SpecWeb. *)

\* a body that is an array of target records: brackets around any number of
\* elements, each an object or null
IsArrayOfRecords(body) ==
    \/ body = <<Tok("[]")>>
    \/ /\ Len(body) >= 3
       /\ body[1] = Tok("[")
       /\ body[Len(body)] = Tok("]")
       /\ \A n \in 2..(Len(body) - 1) : body[n].tok \in {"obj", "{}", "null"}

\* the fetch the latest call made met one of the failures of a pass
WebFailure(src) ==
    \/ src.url # "ok"
    \/ src.transport # "ok"
    \/ src.status # 200
    \/ src.readAll # "ok"
    \/ ~IsArrayOfRecords(src.body)

\* C15: a call that met a transport failure, a status other than 200, a body
\* read failure or a body that is not an array of target records returned an
\* error and the nil slice, and a call that returned records read a body that
\* is an array of as many records.
C15_AllOrNothing ==
    webLast.called =>
        /\ WebFailure(webLast.src)
              => (webLast.err # "" /\ webLast.configs = NilSlice)
        /\ webLast.configs.elems # <<>>
              => /\ webLast.err = ""
                 /\ IsArrayOfRecords(webLast.src.body)
                 /\ Len(webLast.configs.elems) = Len(webLast.src.body) - 2

\* every record of a result has a target
AllHaveTargets(result) ==
    \A n \in 1..Len(result.elems) : result.elems[n].Targets.elems # <<>>

\* C16: every record returned by the latest call of the AppEngine provider, of
\* the gke provider and of the web provider has a non-empty targets sequence.
C16_TargetsNeverEmpty ==
    /\ AllHaveTargets(last.configs)
    /\ AllHaveTargets(gkeLast.configs)
    /\ AllHaveTargets(webLast.configs)

-----------------------------------------------------------------------------
(* Claims about both inventory providers, checked under SpecProviders. *)

\* the inventory call of the gke provider that is request n of a pass: the
\* pages of zones first, then for every zone the clusters and, for every
\* cluster, its client and its services
GkeCallAt(n) ==
    IF n <= (NumZones + PageSize - 1) \div PageSize THEN "zones"
    ELSE IF (n - ((NumZones + PageSize - 1) \div PageSize) - 1)
                % (1 + 2 * NumClusters) = 0 THEN "clusters"
    ELSE IF ((n - ((NumZones + PageSize - 1) \div PageSize) - 1)
                % (1 + 2 * NumClusters)) % 2 = 1 THEN "client"
    ELSE "services"

\* C12: a pass one of whose inventory calls failed returned the error of that
\* call and the nil slice, whichever call it was: any page request of the
\* AppEngine provider, and the listing of zones or of clusters, the client
\* derivation or the listing of services of the gke provider, which made no
\* call after it.
C12_FailureAbortsPass ==
    /\ (last.called /\ last.failAt # 0)
          => (last.err /\ last.configs = NilSlice)
    /\ (gkeLast.called /\ gkeLast.failAt # 0 /\ ~gkeLast.panic)
          => /\ gkeLast.err = GkeCallAt(gkeLast.failAt)
             /\ gkeLast.configs = NilSlice
             /\ gkeLast.requests = gkeLast.failAt

\* C12 witness: the last request of a pass failed in both providers, after
\* the AppEngine pass had found targets and the gke pass had been through a
\* zone with annotated services.
C12_Witness ==
    /\ last.called /\ last.err /\ last.failAt = Requests(last.inv)
    /\ last.before = NilSlice /\ targets.elems # <<>>
    /\ gkeLast.called /\ gkeLast.err = "services" /\ gkeLast.failAt = GkeRequests
    /\ gkeLast.inv[1] = BaseZone(1)

-----------------------------------------------------------------------------
(* Claims about the rounds of Manager.Run, checked under Spec. *)

\* C17: once the context given to Run is cancelled, Run starts no Discover
\* call and begins no write of a destination.
C17_NoWorkAfterCancel ==
    [][ctxDone => /\ ~(pc = "for" /\ pc' = "discover")
                  /\ ~(pc = "discover" /\ pc' = "write")]_vars

\* C18: a Discover call that starts while the context given to Run is not
\* cancelled starts with a context that is not done, whatever happened to the
\* contexts of the calls before it; and while a call is in flight, its
\* context is done as soon as the context given to Run is cancelled.
C18_ContextPerCall ==
    /\ [][(pc = "for" /\ pc' = "discover" /\ ~ctxDone) => disCtx' = "live"]_vars
    /\ [](pc = "discover" /\ ctxDone => disCtx # "live")

\* C18 witness: the second provider's call is in flight with a live context,
\* in a round whose first call, of a provider that returns only when its
\* context is done, ended by its timeout.
C18_Witness ==
    /\ pc = "discover"
    /\ idx = 2
    /\ services[1] = "timeout"
    /\ round[1].disc = "ok"
    /\ ~ctxDone
    /\ disCtx = "live"

\* provider i has been invoked in the current round and its call returned
Invoked(i) == round[i].disc # "none"

\* C19: within a round the providers are invoked one at a time in registration
\* order, each once. A call starts for a provider not invoked in the round
\* yet, when every provider registered before it has been invoked and its
\* call has returned, and no provider registered after it has; the round ends
\* when every provider has been invoked; and a provider whose pass failed is
\* not invoked again before the next round begins.
C19_OncePerRoundInOrder ==
    /\ [][(pc = "for" /\ pc' = "discover")
             => /\ idx' = idx
                /\ \A i \in 1..Len(services) : Invoked(i) <=> i < idx]_vars
    /\ [][(pc = "discover" /\ pc' # "discover")
             => /\ round'[idx].disc # "none"
                /\ \A i \in 1..Len(services) : i # idx => round'[i] = round[i]]_vars
    /\ [](pc = "select" => \A i \in 1..Len(services) : Invoked(i))
    /\ [][(\E i \in 1..Len(round) : Invoked(i) /\ ~Invoked(i)')
             => (pc = "select" /\ pc' = "for" /\ idx' = 1)]_vars

\* C19 witness: the second provider's call is in flight, after the call of
\* the first provider of the round returned an error, and a tick has fired.
C19_Witness ==
    /\ pc = "discover"
    /\ idx = 2
    /\ ticks >= 1
    /\ services[1] = "failure"
    /\ round[1].disc = "error"
    /\ ~Invoked(2)

\* the passes of the current round that wrote destination d
Wrote(d) ==
    {i \in 1..Len(round) :
        output[i] = d /\ round[i].disc = "ok" /\ round[i].write = "ok"}

\* C20: the registry holds one provider and one destination for every
\* registration, in the order of the registrations and with nothing left
\* out, so that Count is the number of Register calls; and at the end of a
\* round a destination that passes of several providers wrote holds the
\* output of the one registered last among them.
C20_RegisterKeepsPairs ==
    /\ [](Len(services) = Len(output))
    /\ [][(services' # services \/ output' # output)
             => \E kind \in Kinds, out \in Dests :
                    /\ services' = Append(services, kind)
                    /\ output' = Append(output, out)]_vars
    /\ [](pc = "select" =>
             \A d \in Dests :
                 Wrote(d) # {} =>
                     files[d] = round[CHOOSE j \in Wrote(d) :
                                          \A i \in Wrote(d) : i <= j].doc)

\* C20 witness: two providers of the same kind were registered with the same
\* destination, both passes of the round wrote it, and it holds the output of
\* the second, which differs from that of the first.
C20_Witness ==
    /\ pc = "select"
    /\ services = <<"gke", "gke">>
    /\ output = <<"a.json", "a.json">>
    /\ Wrote("a.json") = {1, 2}
    /\ round[1].doc # round[2].doc
    /\ files["a.json"] = round[2].doc

-----------------------------------------------------------------------------
(* More claims about the AppEngine provider, checked under SpecAE. *)

\* version v of service s is serving and has no network configuration or no
\* forwarded port
NoPorts(inventory, s, v) ==
    /\ inventory[s].versions[v].ServingStatus = "SERVING"
    /\ \/ inventory[s].versions[v].Network.isNil
       \/ inventory[s].versions[v].Network.ForwardedPorts = <<>>

\* C21: a pass none of whose requests failed returns no error, whatever
\* serving versions lack a network configuration or a forwarded port; no
\* instance of such a version is among the targets returned, and every
\* instance of the other versions and services that meets the six conditions
\* is.
C21_NoPortsExcludesOwnOnly ==
    (last.called /\ last.failAt = 0) =>
        /\ ~last.err
        /\ \A s \in 1..NumServices, v \in 1..NumVersions, k \in 1..NumInstances :
              /\ NoPorts(last.inv, s, v) => ~Emitted(last.configs, s, v, k)
              /\ Qualifies(last.inv, s, v, k) => Emitted(last.configs, s, v, k)

\* the records of a result that carry the name of service s
RecordsOf(result, s) ==
    {n \in 1..Len(result.elems) :
        <<aefLabelService, ServiceId(s)>> \in result.elems[n].Labels}

\* C22: after a successful pass the active count of every service is the
\* number of records returned for that service and its inactive count is the
\* number of monitorable instances of its serving versions that the traffic
\* split leaves out; instances of versions that are not serving are in
\* neither count.
C22_CountsMatchEmitted ==
    (last.called /\ ~last.err) =>
        \A s \in 1..NumServices :
            /\ last.gauges[s].active = Cardinality(RecordsOf(last.configs, s))
            /\ last.gauges[s].inactive = Cardinality(Unallocated(last.inv, s))

-----------------------------------------------------------------------------
(* Claims about the records getLabels builds, checked under SpecLabels. *)

\* the value the record of the latest call gives label key
LabelValues(key) == {kv[2] : kv \in {x \in lblLast.config.Labels : x[1] = key}}

\* the protocol and the port number an entry of the forwarded ports names
ProtocolOf(entry) ==
    CASE entry \in {"9090/udp", "8080/udp"} -> "udp"
      [] entry \in {"9090/tcp", "8080/tcp"} -> "tcp"
      [] OTHER -> "both"
PortNumberOf(entry) ==
    IF entry \in {"9090/tcp", "9090/udp", "9090", "9090/http"} THEN "9090" ELSE "8080"

\* C23: the protocol label of a record is "udp" when the version's first
\* forwarded port ends with /udp, "tcp" when it ends with /tcp and "both"
\* otherwise, whatever the other forwarded ports are.
C23_ProtocolFromFirstPort ==
    lblLast.called =>
        LabelValues(aefLabelPublicProto)
            = {ProtocolOf(lblLast.version.Network.ForwardedPorts[1])}

\* C23 witness: a record labelled "both" for a version whose first forwarded
\* port is a bare number and whose second one is a udp port.
C23_Witness ==
    /\ lblLast.called
    /\ lblLast.version.Network.ForwardedPorts = <<"9090", "8080/udp">>
    /\ LabelValues(aefLabelPublicProto) = {"both"}

\* C24: a record has exactly one target, the instance's VM IP, a colon and the
\* port number of the version's first forwarded port without its protocol
\* suffix; the record is the same whatever forwarded ports follow the first.
C24_OneTargetFirstPort ==
    lblLast.called =>
        /\ lblLast.config.Targets.elems
              = <<lblLast.instance.VmIp \o ":"
                    \o PortNumberOf(lblLast.version.Network.ForwardedPorts[1])>>
        /\ lblLast.config
              = getLabels(BaseService(1),
                          [lblLast.version EXCEPT !.Network.ForwardedPorts =
                              <<lblLast.version.Network.ForwardedPorts[1]>>],
                          lblLast.instance)

\* C24 witness: a record with the single target 10.1.1.1:8080 for a version
\* that forwards 8080/udp first and 9090/tcp second.
C24_Witness ==
    /\ lblLast.called
    /\ lblLast.version.Network.ForwardedPorts = <<"8080/udp", "9090/tcp">>
    /\ lblLast.config.Targets.elems = <<"10.1.1.1:8080">>

\* C25: the max_total_instances label of a record is the automatic-scaling
\* maximum when the version has automatic scaling, with or without manual
\* scaling; else the manual-scaling instance count when it has manual
\* scaling; else "0". A record is built in each of these cases.
C25_MaxTotalInstances ==
    lblLast.called =>
        LabelValues(aefMaxTotalInstances) =
            {CASE lblLast.version.AutomaticScaling
                      = [isNil |-> FALSE, MaxTotalInstances |-> 20, Instances |-> 0]
                      -> "20"
               [] lblLast.version.AutomaticScaling
                      = [isNil |-> FALSE, MaxTotalInstances |-> 0, Instances |-> 0]
                      -> "0"
               [] OTHER -> IF lblLast.version.ManualScaling.isNil THEN "0" ELSE "3"}

\* C25 witness: a record labelled "20" for a version with both policies, the
\* manual one asking for 3 instances.
C25_Witness ==
    /\ lblLast.called
    /\ ~lblLast.version.AutomaticScaling.isNil
    /\ lblLast.version.AutomaticScaling.MaxTotalInstances = 20
    /\ ~lblLast.version.ManualScaling.isNil
    /\ LabelValues(aefMaxTotalInstances) = {"20"}

-----------------------------------------------------------------------------
(* More claims about the gke provider, checked under SpecGKE. *)

\* service k of cluster c of zone z has an address findTargetAndLabels can use
HasExternal(z, c, k) ==
    Len(KubeService(z, c, k).ExternalIPs) > 0 /\ Len(KubeService(z, c, k).Ports) > 0
HasIngress(z, c, k) == Len(KubeService(z, c, k).Ingress) > 0
IsAnnotated(z, c, k) == KubeService(z, c, k).scrape = Annotated("true")

\* C26: a pass none of whose calls failed, over services each of which has
\* ports or no ingress entry, returns no error and a slice that is not nil.
\* An annotated service with neither an external address usable with a port
\* nor an ingress entry has no record in it, every annotated service with an
\* external address and a port has one, and the slice is empty when no
\* service has a record.
C26_NoAddressNoTarget ==
    (gkeLast.called /\ gkeLast.failAt = 0 /\ ~gkeLast.panic) =>
        /\ gkeLast.err = ""
        /\ ~gkeLast.configs.isNil
        /\ \A z \in 1..NumZones, c \in 1..NumClusters, k \in 1..NumKubeServices :
              /\ (IsAnnotated(z, c, k) /\ ~HasExternal(z, c, k) /\ ~HasIngress(z, c, k))
                    => GkeRecords(z, c, k) = {}
              /\ (IsAnnotated(z, c, k) /\ HasExternal(z, c, k))
                    => GkeRecords(z, c, k) # {}
        /\ Len(gkeLast.configs.elems)
              = Cardinality({zck \in (1..NumZones) \X (1..NumClusters) \X (1..NumKubeServices) :
                                /\ IsAnnotated(zck[1], zck[2], zck[3])
                                /\ \/ HasExternal(zck[1], zck[2], zck[3])
                                   \/ HasIngress(zck[1], zck[2], zck[3])})

\* C26 witness: a pass over annotated services none of which has an address
\* returned the empty slice and no error.
C26_Witness ==
    /\ gkeLast.called /\ gkeLast.failAt = 0
    /\ gkeLast.err = "" /\ ~gkeLast.panic
    /\ gkeLast.configs = EmptySlice
    /\ \A z \in 1..NumZones, c \in 1..NumClusters, k \in 1..NumKubeServices :
          IsAnnotated(z, c, k) /\ ~HasExternal(z, c, k) /\ ~HasIngress(z, c, k)

\* C27: every record of a result has exactly the labels service, cluster and
\* zone, and their values are the name of a service of the inventory, the
\* name of the cluster that lists it and the name of the zone of that cluster.
C27_LabelsOfTraversal ==
    GkeSucceeded =>
        \A n \in 1..Len(gkeLast.configs.elems) :
            \E z \in 1..NumZones, c \in 1..NumClusters, k \in 1..NumKubeServices :
                /\ gkeLast.configs.elems[n].Labels
                      = {<<"service", "svc" \o ToString(z) \o ToString(c) \o ToString(k)>>,
                         <<"cluster", "cluster" \o ToString(z) \o ToString(c)>>,
                         <<"zone", "zone" \o ToString(z)>>}
                /\ GkeTargets(n)[1] \in {ExternalIP(z, c, k) \o ":9090",
                                         IngressIP(z, c, k) \o ":9090"}

\* C27 witness: a result with records from both zones.
C27_Witness ==
    /\ GkeSucceeded
    /\ \E n, m \in 1..Len(gkeLast.configs.elems) :
          /\ <<"zone", "zone1">> \in gkeLast.configs.elems[n].Labels
          /\ <<"zone", "zone2">> \in gkeLast.configs.elems[m].Labels
          /\ <<"cluster", "cluster21">> \in gkeLast.configs.elems[m].Labels

\* C29: no Discover call of the gke provider ends in a panic, whatever
\* external addresses, ports and ingress entries the annotated services have.
C29_SelectionTotal == ~gkeLast.panic

-----------------------------------------------------------------------------
(* The web provider as a mirror of the Manager's files, under SpecMirror. *)

\* two sequences of records with the same targets and the same labels, in
\* the same order
SameRecords(a, b) ==
    /\ Len(a.elems) = Len(b.elems)
    /\ \A n \in 1..Len(a.elems) :
          /\ a.elems[n].Targets.elems = b.elems[n].Targets.elems
          /\ a.elems[n].Labels = b.elems[n].Labels

\* C28: a Discover call that fetched, with status 200, the data the Manager
\* makes of a sequence of records returned no error and a sequence with the
\* same targets and the same labels in the same order.
C28_MirrorReadsWhatIsWritten ==
    webLast.called =>
        \A c \in MirrorConfigs :
            webLast.src = [GoodResponse EXCEPT !.body = MarshalIndent(c)]
                => (webLast.err = "" /\ SameRecords(webLast.configs, c))

\* C28 witness: the mirror returned two records, the second with two targets
\* and no labels, the first with labels.
C28_Witness ==
    /\ webLast.called /\ webLast.err = ""
    /\ Len(webLast.configs.elems) = 2
    /\ webLast.configs.elems[1] = GkeConfigs.elems[1]
    /\ webLast.configs.elems[2].Targets.elems = <<"10.1.1.1:9090", "10.1.1.2:9090">>
    /\ webLast.configs.elems[2].Labels = {}
    /\ webLast.src.body = MarshalIndent(webLast.configs)

-----------------------------------------------------------------------------
(* The rounds and the ticker of Manager.Run, under Spec. *)

\* a step that begins a round: Run is at the first provider of the range
BeginsRound == pc' = "for" /\ idx' = 1 /\ ~(pc = "for" /\ idx = 1)

\* C30: the first step of Run begins a round, when no tick has fired yet;
\* every other round begins from the select, where the previous round is
\* over, by taking a tick that has fired; and the ticker's channel never holds
\* more than one tick.
C30_RoundsFollowTicks ==
    /\ [][(pc = "idle" /\ pc' # "idle") => (BeginsRound /\ ticks = 0 /\ tick' = 0)]_vars
    /\ [][(BeginsRound /\ pc # "idle")
             => (pc = "select" /\ tick = 1 /\ tick' = 0)]_vars
    /\ [](tick \in {0, 1})

\* C30 witness: a call is in flight in a round that a tick began, and the
\* next tick is pending.
C30_Witness ==
    /\ pc = "discover"
    /\ ticks = 2
    /\ tick = 1
    /\ Len(services) = 2

=============================================================================
